---------------------------- MODULE Spec2Model ----------------------------
(***************************************************************************)
(* data-pile: an append-only key-value store over two memory-mapped files  *)
(* (the flatfile "data" and the sequence-number index "seqno") and an      *)
(* in-memory key index.                                                    *)
(*                                                                         *)
(* Database (database.rs) and Index (index.rs) are modelled from their     *)
(* source.  FlatFile, SeqNoIndex, SeqNoIter and the record serializer are  *)
(* modules of the crate (lib.rs: mod flatfile, seqno, serialization, ...)  *)
(* whose source is not available; they are modelled from the design        *)
(* document (sections 4.1 - 4.4, 4.6 and 7).                               *)
(***************************************************************************)
EXTENDS Integers, Sequences, FiniteSets, TLC

(***************************************************************************)
(* Bounds of the model.                                                    *)
(***************************************************************************)
\* keys are the one-byte strings <<1>> .. <<MaxKey>>
MaxKey == 2
\* an append call passes at most MaxBatch records
MaxBatch == 2
\* DatabaseBuilder.flatfile_map_size as configured for the model's database
flatfile_map_size == 10
\* DatabaseBuilder.seqno_index_map_size as configured for the model's database
seqno_index_map_size == 16

\* std::mem::size_of::<u64>(): the width of one seqno index entry
EntrySize == 8

Threads == {1, 2}

KeySet == {<<k>> : k \in 1..MaxKey}
ValueSet == {<<>>, <<7, 7>>}
\* Record::new(key, value)
RecordSet == [key : KeySet, value : ValueSet]
BatchSet == UNION {[1..n -> RecordSet] : n \in 0..MaxBatch}

\* the seqnos readers ask for: more than the seqno index can hold
SeqnoRange == 0..(seqno_index_map_size \div EntrySize + 1)

None == <<>>
Some(x) == <<x>>

(***************************************************************************)
(* Record serializer (design 4.1): a self-delimiting encoding.  The model  *)
(* uses key length, value length, key bytes, value bytes.                  *)
(***************************************************************************)
SerializerSize(record) == 2 + Len(record.key) + Len(record.value)

Serialize(record) ==
    <<Len(record.key), Len(record.value)>> \o record.key \o record.value

\* read(src): Some(record), or None when src does not hold a whole record
Deserialize(src) ==
    IF Len(src) < 2 THEN None
    ELSE LET klen == src[1]
             vlen == src[2]
         IN  IF Len(src) < 2 + klen + vlen THEN None
             ELSE Some([key   |-> SubSeq(src, 3, 2 + klen),
                        value |-> SubSeq(src, 3 + klen, 2 + klen + vlen)])

RECURSIVE SerializeAll(_)
SerializeAll(records) ==
    IF records = <<>> THEN <<>>
    ELSE Serialize(Head(records)) \o SerializeAll(Tail(records))

RECURSIVE TotalSize(_)
TotalSize(records) ==
    IF records = <<>> THEN 0
    ELSE SerializerSize(Head(records)) + TotalSize(Tail(records))

(***************************************************************************)
(* Appender / FlatFile (design 4.2, 4.3): file bytes, a read-only mmap of  *)
(* map_size bytes over them (zero-filled past the written bytes), and the  *)
(* logical length actual_size.                                             *)
(***************************************************************************)
EmptyFile == [file |-> <<>>, actual_size |-> 0]

\* the mmap bytes [from, to)
MmapSlice(f, from, to) ==
    [j \in 1..(to - from) |->
        IF from + j <= Len(f.file) THEN f.file[from + j] ELSE 0]

FlatFileLen(ff) == ff.actual_size

\* Appender::append: the write is refused when it would exceed the map
AppenderFits(f, map_size, size_inc) == f.actual_size + size_inc <= map_size

AppenderAppend(f, buf) ==
    [file |-> SubSeq(f.file, 1, f.actual_size) \o buf,
     actual_size |-> f.actual_size + Len(buf)]

FlatFileAppendOk(ff, records) ==
    AppenderFits(ff, flatfile_map_size, TotalSize(records))

FlatFileAppend(ff, records) == AppenderAppend(ff, SerializeAll(records))

FlatFileGetRecordAtOffset(ff, offset) ==
    IF offset >= ff.actual_size THEN None
    ELSE Deserialize(MmapSlice(ff, offset, ff.actual_size))

(***************************************************************************)
(* SeqNoIndex (design 4.4): the same file structure with 8-byte            *)
(* little-endian entries.                                                  *)
(***************************************************************************)
RECURSIVE LeBytes(_, _)
LeBytes(n, width) ==
    IF width = 0 THEN <<>>
    ELSE <<n % 256>> \o LeBytes(n \div 256, width - 1)

\* u64::to_le_bytes
U64ToLeBytes(n) == LeBytes(n, EntrySize)

RECURSIVE U64FromLeBytes(_)
U64FromLeBytes(bytes) ==
    IF bytes = <<>> THEN 0
    ELSE Head(bytes) + 256 * U64FromLeBytes(Tail(bytes))

RECURSIVE EncodeOffsets(_)
EncodeOffsets(offsets) ==
    IF offsets = <<>> THEN <<>>
    ELSE U64ToLeBytes(Head(offsets)) \o EncodeOffsets(Tail(offsets))

SeqNoIndexLen(si) == si.actual_size \div EntrySize

SeqNoIndexAppendOk(si, offsets) ==
    AppenderFits(si, seqno_index_map_size, EntrySize * Len(offsets))

SeqNoIndexAppend(si, offsets) == AppenderAppend(si, EncodeOffsets(offsets))

SeqNoIndexGetPointerToValue(si, seqno) ==
    IF seqno >= SeqNoIndexLen(si) THEN None
    ELSE Some(U64FromLeBytes(
             MmapSlice(si, EntrySize * seqno, EntrySize * (seqno + 1))))


(***************************************************************************)
(* SeqNoIter (design 4.6): walks the flatfile forward from an offset,      *)
(* delimited by the logical end captured when the iterator is created.     *)
(***************************************************************************)
SeqNoIterNew(ff, offset) == [offset |-> offset, end |-> FlatFileLen(ff)]

\* the item next() returns: Some(record) or None
\* (faulty variant: delimited by the logical end at the time of the call)
SeqNoIterItemLive(ff, iter) ==
    IF iter.offset >= FlatFileLen(ff) THEN None
    ELSE Deserialize(MmapSlice(ff, iter.offset, FlatFileLen(ff)))

SeqNoIterItem(ff, iter) ==
    IF iter.offset >= iter.end THEN None
    ELSE Deserialize(MmapSlice(ff, iter.offset, iter.end))

\* the iterator after a next() that returned Some(record)
SeqNoIterAdvance(iter, record) ==
    [iter EXCEPT !.offset = iter.offset + SerializerSize(record)]

\* every record the iterator yields until next() returns None
RECURSIVE SeqNoIterCollect(_, _)
SeqNoIterCollect(ff, iter) ==
    LET item == SeqNoIterItem(ff, iter)
    IN  IF item = None THEN <<>>
        ELSE <<item[1]>> \o SeqNoIterCollect(ff, SeqNoIterAdvance(iter, item[1]))

(***************************************************************************)
(* Index (index.rs): the BTreeMap from key to flatfile offset.             *)
(***************************************************************************)
EmptyMapping == [k \in {} |-> 0]

\* BTreeMap::insert: insert or overwrite
MapInsert(m, key, offset) ==
    [k \in DOMAIN m \cup {key} |-> IF k = key THEN offset ELSE m[k]]

\* Index::put
\* (faulty variant: an offset already held for the key is kept)
IndexPutKeepFirst(m, key, offset) ==
    IF key \in DOMAIN m THEN m ELSE MapInsert(m, key, offset)
IndexPut(m, key, offset) == MapInsert(m, key, offset)

\* Index::get
IndexGet(m, key) == IF key \in DOMAIN m THEN Some(m[key]) ELSE None

\* Index::contains (design 4.5): get, reporting presence only
IndexContains(m, key) == IndexGet(m, key) # None

\* Index::new: mapping.insert(key, offset)
\* (faulty variant: an offset already held for the key is kept)
IndexNewInsertKeepFirst(m, key, offset) ==
    IF key \in DOMAIN m THEN m ELSE MapInsert(m, key, offset)
IndexNewInsert(m, key, offset) == MapInsert(m, key, offset)

\* the while-let loop of Index::new
RECURSIVE IndexNewLoop(_, _, _, _)
IndexNewLoop(ff, iter, offset, m) ==
    LET item == SeqNoIterItem(ff, iter)
    IN  IF item = None THEN m
        ELSE IndexNewLoop(ff, SeqNoIterAdvance(iter, item[1]),
                          offset + SerializerSize(item[1]),
                          IndexNewInsert(m, item[1].key, offset))

\* Index::new
IndexNew(ff) == IndexNewLoop(ff, SeqNoIterNew(ff, 0), 0, EmptyMapping)

(***************************************************************************)
(* Opening the files (design 4.2, 7).  The flatfile is pre-extended to the *)
(* map size, so its logical length is found by decoding records from       *)
(* offset 0 until decoding fails or runs into the zero fill.  The seqno    *)
(* index keeps its logical length with the file.                           *)
(***************************************************************************)
RECURSIVE ScanLen(_, _)
ScanLen(f, offset) ==
    LET item == IF offset >= flatfile_map_size THEN None
                ELSE Deserialize(MmapSlice(f, offset, flatfile_map_size))
    IN  IF item = None \/ SerializerSize(item[1]) = 2 THEN offset
        ELSE ScanLen(f, offset + SerializerSize(item[1]))

\* FlatFile::new
FlatFileNew(f) == [file |-> f.file, actual_size |-> ScanLen(f, 0)]

\* SeqNoIndex::new
SeqNoIndexNew(f) == [file |-> f.file, actual_size |-> f.actual_size]

(***************************************************************************)
(* Database (database.rs): the pure parts.                                 *)
(***************************************************************************)
\* Path::is_dir, Path::exists on the three kinds of path
PathIsDir(p) == p = "dir"
PathExists(p) == p # "absent"

\* DatabaseBuilder::open up to the creation of the directory: the error it
\* returns, or "Ok" when it goes on to open the files
OpenPathCheck(p) == IF ~PathIsDir(p) THEN "PathNotDir" ELSE "Ok"

\* the directory after the path check passed (create_dir when absent)
OpenPathAfter(p) == IF ~PathExists(p) THEN "dir" ELSE p

\* Database::get
Get(m, ff, key) ==
    LET o == IndexGet(m, key)
    IN  IF o = None THEN None ELSE FlatFileGetRecordAtOffset(ff, o[1])

\* Database::get_by_seqno
GetBySeqno(si, ff, seqno) ==
    LET o == SeqNoIndexGetPointerToValue(si, seqno)
    IN  IF o = None THEN None ELSE FlatFileGetRecordAtOffset(ff, o[1])

\* Database::iter_from_seqno: Some(iterator) or None
\* (faulty variant: the iterator starts one record late)
IterFromSeqnoNext(si, ff, seqno) ==
    LET o == SeqNoIndexGetPointerToValue(si, seqno + 1)
    IN  IF o = None THEN None ELSE Some(SeqNoIterNew(ff, o[1]))

\* (faulty variant: an iterator at the end of the log where there is no entry)
IterFromSeqnoEmpty(si, ff, seqno) ==
    LET o == SeqNoIndexGetPointerToValue(si, seqno)
    IN  IF o = None THEN Some(SeqNoIterNew(ff, FlatFileLen(ff)))
        ELSE Some(SeqNoIterNew(ff, o[1]))

IterFromSeqno(si, ff, seqno) ==
    LET o == SeqNoIndexGetPointerToValue(si, seqno)
    IN  IF o = None THEN None ELSE Some(SeqNoIterNew(ff, o[1]))

\* the key the first loop of append looks up in its round i: record.key()
\* (faulty variant: every round looks up the first record)
CheckedKeyFirstOnly(recs, i) == recs[1].key
CheckedKey(recs, i) == recs[i].key

\* append: let mut offset = initial_size
\* (faulty variant: the offsets are counted from 0)
InitialOffsetZero(size) == 0
InitialOffset(size) == size

\* the second loop of append: offset += self.serializer.size(record)
\* (faulty variant: the offset advances by one)
NextOffsetNoSize(offset, record) == offset + 1
NextOffset(offset, record) == offset + SerializerSize(record)

\* the second loop of append: seqno_index_update.push(offset as u64)
\* (faulty variant: the offset is pushed after it was advanced)
PushOffsetAfter(update, offset, record) ==
    Append(update, NextOffset(offset, record))
PushOffset(update, offset, record) == Append(update, offset)

\* the results of Database::append
Ok == [tag |-> "Ok", key |-> <<>>, at |-> "none"]
ErrRecordExists(key) == [tag |-> "RecordExists", key |-> key, at |-> "index"]
ErrOutOfSpace(at) == [tag |-> "OutOfSpace", key |-> <<>>, at |-> at]
Pending == [tag |-> "Pending", key |-> <<>>, at |-> "none"]

(***************************************************************************)
(* State.                                                                  *)
(***************************************************************************)
VARIABLES
    path,                \* what the database path is: "absent", "file", "dir"
    opened,              \* a Database value exists
    open_result,         \* what the last DatabaseBuilder::open returned
    flatfile,            \* Database.flatfile (file "data")
    seqno_index,         \* Database.seqno_index (file "seqno")
    mapping,             \* Database.index.mapping
    pc,                  \* per thread: where its Database::append call is
    records,             \* per thread: the argument of the call
    initial_size,        \* per thread: the local initial_size
    idx,                 \* per thread: position of the running for loop
    offset,              \* per thread: the local offset
    seqno_index_update,  \* per thread: the local seqno_index_update
    result,              \* per thread: what the last call returned
    pre,                 \* per thread: the database as the call began
    inserted,            \* the non-empty batches of the calls that returned Ok
    written,             \* the records handed to a successful flatfile.append
    seqno_failed,        \* a seqno_index.append has failed
    closed,              \* the database as it was when it was last dropped
    iter,                \* the SeqNoIter a reader holds: None or Some(iterator)
    yielded,             \* what the reader's iterator has returned so far
    iter_from,           \* the seqno the reader's iterator was created from
    iter_count,          \* the records in the flatfile at that moment
    iter_done,           \* the reader's iterator has returned None
    iter_ok,             \* no seqno_index.append had failed at that moment
    last                 \* what acted last: "init", "open", "reopen" or a "call"

dbvars == <<path, opened, open_result, flatfile, seqno_index, mapping>>
appvars == <<pc, records, initial_size, idx, offset, seqno_index_update,
             result, pre>>
histvars == <<inserted, written, seqno_failed, closed>>
itervars == <<iter, yielded, iter_from, iter_count, iter_done, iter_ok>>
vars == <<dbvars, appvars, histvars, itervars, last>>

Snapshot == [flatfile |-> flatfile, seqno_index |-> seqno_index,
             mapping |-> mapping]

NoSnapshot == [flatfile |-> EmptyFile, seqno_index |-> EmptyFile,
               mapping |-> EmptyMapping]

\* no append call is running
Quiescent == \A t \in Threads : pc[t] = "idle"

\* no append call is between its first and its last step
Settled == \A t \in Threads : pc[t] \in {"idle", "done"}

Init ==
    /\ path \in {"absent", "file", "dir"}
    /\ opened = FALSE
    /\ open_result = "none"
    /\ flatfile = EmptyFile
    /\ seqno_index = EmptyFile
    /\ mapping = EmptyMapping
    /\ pc = [t \in Threads |-> "idle"]
    /\ records = [t \in Threads |-> <<>>]
    /\ initial_size = [t \in Threads |-> 0]
    /\ idx = [t \in Threads |-> 1]
    /\ offset = [t \in Threads |-> 0]
    /\ seqno_index_update = [t \in Threads |-> <<>>]
    /\ result = [t \in Threads |-> Pending]
    /\ pre = [t \in Threads |-> NoSnapshot]
    /\ inserted = <<>>
    /\ written = <<>>
    /\ seqno_failed = FALSE
    /\ closed = NoSnapshot
    /\ iter = None
    /\ yielded = <<>>
    /\ iter_from = 0
    /\ iter_count = 0
    /\ iter_done = FALSE
    /\ iter_ok = FALSE
    /\ last = "init"

(***************************************************************************)
(* DatabaseBuilder::open.                                                  *)
(***************************************************************************)
\* open returns Err(PathNotDir)
OpenPathNotDir ==
    /\ ~opened
    /\ OpenPathCheck(path) = "PathNotDir"
    /\ open_result' = "PathNotDir"
    /\ last' = "open"
    /\ UNCHANGED <<path, opened, flatfile, seqno_index, mapping, appvars,
                   histvars, itervars>>

\* open returns Ok(Database)
OpenOk ==
    /\ ~opened
    /\ OpenPathCheck(path) = "Ok"
    /\ path' = OpenPathAfter(path)
    /\ flatfile' = FlatFileNew(flatfile)
    /\ seqno_index' = SeqNoIndexNew(seqno_index)
    /\ mapping' = IndexNew(flatfile')
    /\ opened' = TRUE
    /\ open_result' = "Ok"
    /\ last' = "open"
    /\ UNCHANGED <<appvars, histvars, itervars>>

\* the Database is dropped while no call runs, and opened again
Reopen ==
    /\ opened
    /\ Quiescent
    /\ OpenPathCheck(path) = "Ok"
    /\ last # "reopen"
    /\ path' = OpenPathAfter(path)
    /\ flatfile' = FlatFileNew(flatfile)
    /\ seqno_index' = SeqNoIndexNew(seqno_index)
    /\ mapping' = IndexNew(flatfile')
    /\ last' = "reopen"
    /\ closed' = Snapshot
    /\ UNCHANGED <<opened, open_result, appvars, inserted, written,
                   seqno_failed, itervars>>


(***************************************************************************)
(* Database::append, one action per step a concurrent caller can observe.  *)
(***************************************************************************)
\* the call begins: let initial_size = self.flatfile.len()
AppendBegin(t, recs) ==
    /\ opened
    /\ pc[t] = "idle"
    /\ records' = [records EXCEPT ![t] = recs]
    /\ initial_size' = [initial_size EXCEPT ![t] = FlatFileLen(flatfile)]
    /\ idx' = [idx EXCEPT ![t] = 1]
    /\ pc' = [pc EXCEPT ![t] = IF recs = <<>> THEN "write" ELSE "check"]
    /\ result' = [result EXCEPT ![t] = Pending]
    /\ pre' = [pre EXCEPT ![t] = Snapshot]
    /\ closed' = NoSnapshot
    /\ last' = "call"
    /\ UNCHANGED <<dbvars, offset, seqno_index_update, inserted, written,
                   seqno_failed, itervars>>

\* the first loop finds the record's key in the index: Err(RecordExists)
AppendCheckExists(t) ==
    /\ pc[t] = "check"
    /\ IndexContains(mapping, CheckedKey(records[t], idx[t]))
    /\ result' = [result EXCEPT
                     ![t] = ErrRecordExists(CheckedKey(records[t], idx[t]))]
    /\ pc' = [pc EXCEPT ![t] = "done"]
    /\ last' = "call"
    /\ UNCHANGED <<dbvars, records, initial_size, idx, offset,
                   seqno_index_update, pre, histvars, itervars>>

\* the first loop passes the record
AppendCheckFresh(t) ==
    /\ pc[t] = "check"
    /\ ~IndexContains(mapping, CheckedKey(records[t], idx[t]))
    /\ idx' = [idx EXCEPT ![t] = idx[t] + 1]
    /\ pc' = [pc EXCEPT ![t] = IF idx[t] = Len(records[t]) THEN "write"
                                ELSE "check"]
    /\ last' = "call"
    /\ UNCHANGED <<dbvars, records, initial_size, offset, seqno_index_update,
                   result, pre, histvars, itervars>>

\* (faulty variant of AppendFlatfileErr: the error is dropped and the call
\* goes on to its second loop)
AppendFlatfileErrIgnored(t) ==
    /\ pc[t] = "write"
    /\ ~FlatFileAppendOk(flatfile, records[t])
    /\ seqno_index_update' = [seqno_index_update EXCEPT ![t] = <<>>]
    /\ offset' = [offset EXCEPT ![t] = initial_size[t]]
    /\ idx' = [idx EXCEPT ![t] = 1]
    /\ pc' = [pc EXCEPT ![t] = IF records[t] = <<>> THEN "seqno" ELSE "put"]
    /\ last' = "call"
    /\ UNCHANGED <<dbvars, records, initial_size, result, pre, histvars,
                   itervars>>

\* self.flatfile.append(..)? fails: the error is returned
AppendFlatfileErr(t) ==
    /\ pc[t] = "write"
    /\ ~FlatFileAppendOk(flatfile, records[t])
    /\ result' = [result EXCEPT ![t] = ErrOutOfSpace("flatfile")]
    /\ pc' = [pc EXCEPT ![t] = "done"]
    /\ last' = "call"
    /\ UNCHANGED <<dbvars, records, initial_size, idx, offset,
                   seqno_index_update, pre, histvars, itervars>>

\* self.flatfile.append(..)? succeeds; seqno_index_update and offset are set up
AppendFlatfileOk(t) ==
    /\ pc[t] = "write"
    /\ FlatFileAppendOk(flatfile, records[t])
    /\ flatfile' = FlatFileAppend(flatfile, records[t])
    /\ seqno_index_update' = [seqno_index_update EXCEPT ![t] = <<>>]
    /\ offset' = [offset EXCEPT ![t] = InitialOffset(initial_size[t])]
    /\ idx' = [idx EXCEPT ![t] = 1]
    /\ pc' = [pc EXCEPT ![t] = IF records[t] = <<>> THEN "seqno" ELSE "put"]
    /\ written' = written \o records[t]
    /\ last' = "call"
    /\ UNCHANGED <<path, opened, open_result, seqno_index, mapping, records,
                   initial_size, result, pre, inserted, seqno_failed, closed,
                   itervars>>

\* one round of the second loop: push the offset, index.put, advance offset
AppendPut(t) ==
    /\ pc[t] = "put"
    /\ seqno_index_update' =
           [seqno_index_update EXCEPT
               ![t] = PushOffset(@, offset[t], records[t][idx[t]])]
    /\ mapping' = IndexPut(mapping, records[t][idx[t]].key, offset[t])
    /\ offset' = [offset EXCEPT ![t] = NextOffset(@, records[t][idx[t]])]
    /\ idx' = [idx EXCEPT ![t] = idx[t] + 1]
    /\ pc' = [pc EXCEPT ![t] = IF idx[t] = Len(records[t]) THEN "seqno"
                                ELSE "put"]
    /\ last' = "call"
    /\ UNCHANGED <<path, opened, open_result, flatfile, seqno_index, records,
                   initial_size, result, pre, histvars, itervars>>

\* (faulty variant of AppendSeqnoErr: the error is dropped and the call
\* returns Ok)
AppendSeqnoErrIgnored(t) ==
    /\ pc[t] = "seqno"
    /\ ~SeqNoIndexAppendOk(seqno_index, seqno_index_update[t])
    /\ result' = [result EXCEPT ![t] = Ok]
    /\ pc' = [pc EXCEPT ![t] = "done"]
    /\ seqno_failed' = TRUE
    /\ last' = "call"
    /\ UNCHANGED <<dbvars, records, initial_size, idx, offset,
                   seqno_index_update, pre, inserted, written, closed,
                   itervars>>

\* self.seqno_index.append(..)? fails: the error is returned
AppendSeqnoErr(t) ==
    /\ pc[t] = "seqno"
    /\ ~SeqNoIndexAppendOk(seqno_index, seqno_index_update[t])
    /\ result' = [result EXCEPT ![t] = ErrOutOfSpace("seqno")]
    /\ pc' = [pc EXCEPT ![t] = "done"]
    /\ seqno_failed' = TRUE
    /\ last' = "call"
    /\ UNCHANGED <<dbvars, records, initial_size, idx, offset,
                   seqno_index_update, pre, inserted, written, closed,
                   itervars>>

\* self.seqno_index.append(..)? succeeds: Ok(())
AppendSeqnoOk(t) ==
    /\ pc[t] = "seqno"
    /\ SeqNoIndexAppendOk(seqno_index, seqno_index_update[t])
    /\ seqno_index' = SeqNoIndexAppend(seqno_index, seqno_index_update[t])
    /\ result' = [result EXCEPT ![t] = Ok]
    /\ pc' = [pc EXCEPT ![t] = "done"]
    /\ inserted' = IF records[t] = <<>> THEN inserted
                    ELSE Append(inserted, records[t])
    /\ last' = "call"
    /\ UNCHANGED <<path, opened, open_result, flatfile, mapping, records,
                   initial_size, idx, offset, seqno_index_update, pre, written,
                   seqno_failed, closed, itervars>>

\* the call returns to its caller
AppendReturn(t) ==
    /\ pc[t] = "done"
    /\ pc' = [pc EXCEPT ![t] = "idle"]
    /\ records' = [records EXCEPT ![t] = <<>>]
    /\ initial_size' = [initial_size EXCEPT ![t] = 0]
    /\ idx' = [idx EXCEPT ![t] = 1]
    /\ offset' = [offset EXCEPT ![t] = 0]
    /\ seqno_index_update' = [seqno_index_update EXCEPT ![t] = <<>>]
    /\ result' = [result EXCEPT ![t] = Pending]
    /\ pre' = [pre EXCEPT ![t] = NoSnapshot]
    /\ last' = "call"
    /\ UNCHANGED <<dbvars, histvars, itervars>>

AppendStep(t) ==
    \/ \E recs \in BatchSet : AppendBegin(t, recs)
    \/ AppendCheckExists(t)
    \/ AppendCheckFresh(t)
    \/ AppendFlatfileErr(t)
    \/ AppendFlatfileOk(t)
    \/ AppendPut(t)
    \/ AppendSeqnoErr(t)
    \/ AppendSeqnoOk(t)
    \/ AppendReturn(t)

(***************************************************************************)
(* A reader: one call of Database::iter_from_seqno, then next() on the     *)
(* iterator it returned, at any moment of the appends.                     *)
(***************************************************************************)
\* iter_from_seqno(seqno) returns None
IterFromSeqnoNone(seqno) ==
    /\ opened
    /\ iter = None
    /\ IterFromSeqno(seqno_index, flatfile, seqno) = None
    /\ last' = "call"
    /\ UNCHANGED <<dbvars, appvars, histvars, itervars>>

\* iter_from_seqno(seqno) returns Some(iterator)
IterFromSeqnoSome(seqno) ==
    /\ opened
    /\ iter = None
    /\ IterFromSeqno(seqno_index, flatfile, seqno) # None
    /\ iter' = IterFromSeqno(seqno_index, flatfile, seqno)
    /\ yielded' = <<>>
    /\ iter_from' = seqno
    /\ iter_count' = Len(written)
    /\ iter_ok' = ~seqno_failed
    /\ last' = "call"
    /\ UNCHANGED <<dbvars, appvars, histvars, iter_done>>

\* next() returns Some(record)
IterNextSome ==
    /\ iter # None
    /\ ~iter_done
    /\ SeqNoIterItem(flatfile, iter[1]) # None
    /\ LET record == SeqNoIterItem(flatfile, iter[1])[1]
       IN  /\ yielded' = Append(yielded, record)
           /\ iter' = Some(SeqNoIterAdvance(iter[1], record))
    /\ last' = "call"
    /\ UNCHANGED <<dbvars, appvars, histvars, iter_from, iter_count,
                   iter_done, iter_ok>>

\* next() returns None
IterNextNone ==
    /\ iter # None
    /\ ~iter_done
    /\ SeqNoIterItem(flatfile, iter[1]) = None
    /\ iter_done' = TRUE
    /\ last' = "call"
    /\ UNCHANGED <<dbvars, appvars, histvars, iter, yielded, iter_from,
                   iter_count, iter_ok>>

ReaderStep ==
    \/ \E seqno \in SeqnoRange : IterFromSeqnoNone(seqno)
    \/ \E seqno \in SeqnoRange : IterFromSeqnoSome(seqno)
    \/ IterNextSome
    \/ IterNextNone

(***************************************************************************)
(* Specifications.                                                         *)
(***************************************************************************)
\* one caller: the append calls do not overlap; the database may be reopened
Next ==
    \/ OpenPathNotDir
    \/ OpenOk
    \/ Reopen
    \/ AppendStep(1)

Spec == Init /\ [][Next]_vars

\* one caller appending batches of keys the index does not hold, and a reader
\* with an iterator
AppendFreshStep(t) ==
    \/ \E recs \in BatchSet :
           /\ \A i \in 1..Len(recs) : ~IndexContains(mapping, recs[i].key)
           /\ AppendBegin(t, recs)
    \/ AppendCheckFresh(t)
    \/ AppendFlatfileErr(t)
    \/ AppendFlatfileOk(t)
    \/ AppendPut(t)
    \/ AppendSeqnoErr(t)
    \/ AppendSeqnoOk(t)
    \/ AppendReturn(t)

NextIter ==
    \/ OpenOk
    \/ AppendFreshStep(1)
    \/ ReaderStep

SpecIter == Init /\ [][NextIter]_vars

\* two callers on a fresh database, each with one append call, their steps
\* interleaved in every way (flatfile.append and seqno_index.append are
\* atomic under their mutexes, index.put under the write lock)
NextConc ==
    \/ OpenOk
    \/ \E t \in Threads :
           \/ \E recs \in BatchSet : AppendBegin(t, recs)
           \/ AppendCheckExists(t)
           \/ AppendCheckFresh(t)
           \/ AppendFlatfileErr(t)
           \/ AppendFlatfileOk(t)
           \/ AppendPut(t)
           \/ AppendSeqnoErr(t)
           \/ AppendSeqnoOk(t)

SpecConc == Init /\ [][NextConc]_vars


(***************************************************************************)
(* Properties.                                                             *)
(***************************************************************************)
RECURSIVE Flatten(_)
Flatten(batches) ==
    IF batches = <<>> THEN <<>> ELSE Head(batches) \o Flatten(Tail(batches))

DistinctKeys(recs) ==
    \A i, j \in 1..Len(recs) : recs[i].key = recs[j].key => i = j

\* the key of the first record of the batch whose key the index holds
RECURSIVE FirstExisting(_, _, _)
FirstExisting(m, recs, i) ==
    IF i > Len(recs) THEN None
    ELSE IF recs[i].key \in DOMAIN m THEN Some(recs[i].key)
    ELSE FirstExisting(m, recs, i + 1)

\* the records appended so far, by calls that returned Ok
Inserted == Flatten(inserted)

\* C1 Round-trip by key: with non-overlapping appends, every record of every
\* append that returned Ok with pairwise distinct keys is what get returns
\* for its key, in every later state (during and after every later append,
\* and after a reopen).
C1_RoundTripByKey ==
    \A b \in 1..Len(inserted) :
        DistinctKeys(inserted[b]) =>
            \A j \in 1..Len(inserted[b]) :
                Get(mapping, flatfile, inserted[b][j].key)
                    = Some(inserted[b][j])

\* two successful appends of records with values of both sizes, the later
\* one returned
C1_Witness ==
    /\ Len(inserted) = 2
    /\ Len(inserted[1]) = 1 /\ Len(inserted[2]) = 1
    /\ inserted[1][1].value # inserted[2][1].value
    /\ pc[1] = "done" /\ result[1] = Ok

\* C2 Round-trip by seqno: with non-overlapping appends of which none failed
\* at the seqno index, get_by_seqno(i) is the i-th inserted record for every
\* i below the number of inserted records.
C2_RoundTripBySeqno ==
    (Settled /\ ~seqno_failed) =>
        \A i \in 0..(Len(Inserted) - 1) :
            GetBySeqno(seqno_index, flatfile, i) = Some(Inserted[i + 1])

\* a successful append of two records, the longer one first
C2_Witness ==
    /\ Len(inserted) = 1 /\ ~seqno_failed
    /\ Len(inserted[1]) = 2
    /\ Len(inserted[1][1].value) > Len(inserted[1][2].value)
    /\ pc[1] = "done" /\ result[1] = Ok

\* C3 Iteration completeness: with non-overlapping appends of which none
\* failed at the seqno index and at least one record inserted,
\* iter_from_seqno(0) returns an iterator that yields exactly the inserted
\* records in insertion order and then ends.
C3_IterationComplete ==
    (Settled /\ ~seqno_failed /\ Len(Inserted) >= 1) =>
        LET it == IterFromSeqno(seqno_index, flatfile, 0)
        IN  /\ it # None
            /\ SeqNoIterCollect(flatfile, it[1]) = Inserted

\* two records of different sizes inserted by two appends
C3_Witness ==
    /\ Settled /\ ~seqno_failed
    /\ Len(inserted) = 2 /\ Len(Inserted) = 2
    /\ Inserted[1].value # Inserted[2].value
    /\ pc[1] = "idle"

\* C4 Duplicate rejection is all-or-nothing: a call whose batch holds a key
\* that the index held when the call began returns RecordExists with the
\* first such key of the batch, leaves flatfile, index and seqno index as
\* they were, and get of that key still returns the stored record.
C4_DuplicateRejected ==
    \A t \in {1} :
        LET dup == FirstExisting(pre[t].mapping, records[t], 1)
        IN  (pc[t] = "done" /\ dup # None) =>
                /\ result[t] = ErrRecordExists(dup[1])
                /\ Snapshot = pre[t]
                /\ Get(mapping, flatfile, dup[1]) # None
                /\ Get(mapping, flatfile, dup[1])[1] \in
                       {written[i] : i \in 1..Len(written)}
                /\ Get(mapping, flatfile, dup[1])[1].key = dup[1]

\* a rejected batch whose first record has a fresh key and whose second
\* record has a stored key with another value
C4_Witness ==
    /\ pc[1] = "done" /\ result[1].tag = "RecordExists"
    /\ Len(records[1]) = 2
    /\ records[1][1].key \notin DOMAIN mapping
    /\ records[1][2].key \in DOMAIN mapping
    /\ Get(mapping, flatfile, records[1][2].key) # Some(records[1][2])


\* what the three read operations return on a database
ViewOf(s) ==
    [get |-> [k \in KeySet |-> Get(s.mapping, s.flatfile, k)],
     get_by_seqno |->
         [i \in SeqnoRange |-> GetBySeqno(s.seqno_index, s.flatfile, i)],
     iter_from_seqno |->
         [i \in SeqnoRange |->
             LET it == IterFromSeqno(s.seqno_index, s.flatfile, i)
             IN  IF it = None THEN None
                 ELSE Some(SeqNoIterCollect(s.flatfile, it[1]))]]

\* C6 Recovery: after the database was dropped in a quiescent state and
\* opened again, get of every key, get_by_seqno of every seqno and the
\* records iter_from_seqno yields from every seqno are what they were before
\* the drop.
C6_Recovery ==
    last = "reopen" => ViewOf(Snapshot) = ViewOf(closed)

\* a reopen after a batch with the same key twice and a failed seqno append
C6_Witness ==
    /\ last = "reopen"
    /\ seqno_failed
    /\ Len(written) = 3
    /\ Cardinality(DOMAIN mapping) = 2
    /\ \E k \in DOMAIN mapping : mapping[k] > 0 /\ mapping[k] < 5

\* C7 DatabaseBuilder::open returns PathNotDir only when the path exists and
\* is not a directory; on a path that does not exist it creates the
\* directory and returns a Database.
C7_OpenCreatesMissingDir ==
    /\ open_result = "PathNotDir" => path = "file"
    /\ (open_result # "none" /\ path # "file") => (opened /\ path = "dir")

\* C9 A failed flatfile append leaves everything unchanged: a call whose
\* keys are all fresh and whose bytes exceed what is left of the flatfile
\* map returns the flatfile's error, and after a call that returned it the
\* flatfile, the index and the seqno index are as they were when the call
\* began, every stored record readable by key and by seqno as before.
C9_FailedFlatfileAppend ==
    \A t \in {1} :
        /\ ( /\ pc[t] = "done"
             /\ FirstExisting(pre[t].mapping, records[t], 1) = None
             /\ pre[t].flatfile.actual_size + TotalSize(records[t])
                    > flatfile_map_size )
           => result[t] = ErrOutOfSpace("flatfile")
        /\ (pc[t] = "done" /\ result[t] = ErrOutOfSpace("flatfile")) =>
               /\ Snapshot = pre[t]
               /\ FlatFileLen(flatfile) = FlatFileLen(pre[t].flatfile)
               /\ \A k \in DOMAIN pre[t].mapping :
                      /\ Get(mapping, flatfile, k) # None
                      /\ Get(mapping, flatfile, k)[1].key = k
               /\ \A i \in 0..(SeqNoIndexLen(pre[t].seqno_index) - 1) :
                      /\ GetBySeqno(seqno_index, flatfile, i) # None
                      /\ GetBySeqno(seqno_index, flatfile, i)[1] \in
                             {written[j] : j \in 1..Len(written)}

\* a batch of two fresh records that exceeds the map by one byte, with a
\* record stored before
C9_Witness ==
    /\ pc[1] = "done" /\ result[1] = ErrOutOfSpace("flatfile")
    /\ Len(records[1]) = 2
    /\ pre[1].flatfile.actual_size > 0
    /\ pre[1].flatfile.actual_size + TotalSize(records[1])
           = flatfile_map_size + 1

\* the last record of the batch that has the key of its j-th record
LastWithKey(recs, j) ==
    recs[CHOOSE i \in j..Len(recs) :
             /\ recs[i].key = recs[j].key
             /\ \A h \in (i + 1)..Len(recs) : recs[h].key # recs[j].key]

\* the call of thread t fills both maps exactly
ExactFit(t) ==
    /\ pc[t] = "done"
    /\ FirstExisting(pre[t].mapping, records[t], 1) = None
    /\ pre[t].flatfile.actual_size + TotalSize(records[t]) = flatfile_map_size
    /\ pre[t].seqno_index.actual_size + EntrySize * Len(records[t])
           = seqno_index_map_size

\* C10 Exact-fit capacity: an append of fresh keys whose bytes are exactly
\* what is left of the flatfile map and whose entries are exactly what is
\* left of the seqno map returns Ok, and its records are then read back by
\* seqno, by iteration and by key (get of a key returns the last record of
\* the batch with that key: the record itself when the keys differ).
C10_ExactFit ==
    \A t \in {1} :
        ExactFit(t) =>
            LET n == SeqNoIndexLen(pre[t].seqno_index)
                it == IterFromSeqno(seqno_index, flatfile, n)
            IN  /\ result[t] = Ok
                /\ \A j \in 1..Len(records[t]) :
                       /\ GetBySeqno(seqno_index, flatfile, n + j - 1)
                              = Some(records[t][j])
                       /\ Get(mapping, flatfile, records[t][j].key)
                              = Some(LastWithKey(records[t], j))
                /\ records[t] # <<>> =>
                       /\ it # None
                       /\ SeqNoIterCollect(flatfile, it[1]) = records[t]

\* a one-record append that fills both maps after an earlier record
C10_Witness ==
    /\ ExactFit(1)
    /\ Len(records[1]) = 1
    /\ pre[1].flatfile.actual_size > 0
    /\ result[1] = Ok


\* the keys of a batch
KeysOf(recs) == {recs[i].key : i \in 1..Len(recs)}

\* both callers have made their call, with batches of pairwise distinct keys
\* that share no key and fit the two maps together
DisjointCallsDone ==
    /\ pc[1] = "done" /\ pc[2] = "done"
    /\ DistinctKeys(records[1]) /\ DistinctKeys(records[2])
    /\ KeysOf(records[1]) \cap KeysOf(records[2]) = {}
    /\ TotalSize(records[1]) + TotalSize(records[2]) <= flatfile_map_size
    /\ EntrySize * (Len(records[1]) + Len(records[2])) <= seqno_index_map_size

\* C5 Concurrent appends lose nothing: when two threads each append a batch
\* and the batches share no key, under every interleaving both calls return
\* Ok, the seqno index holds as many entries as both batches have records,
\* get of every key of both batches returns the record appended with it,
\* and get_by_seqno returns a record for every seqno below the total.
C5_ConcurrentAppends ==
    DisjointCallsDone =>
        /\ result[1] = Ok /\ result[2] = Ok
        /\ SeqNoIndexLen(seqno_index) = Len(records[1]) + Len(records[2])
        /\ \A t \in Threads : \A j \in 1..Len(records[t]) :
               Get(mapping, flatfile, records[t][j].key)
                   = Some(records[t][j])
        /\ \A i \in 0..(Len(records[1]) + Len(records[2]) - 1) :
               GetBySeqno(seqno_index, flatfile, i) # None

\* C8 Iterator snapshot: an iterator returned by iter_from_seqno(i) while no
\* seqno append had failed yields, in order, the records with seqno i up to
\* (not including) the number of records stored when it was created, then
\* ends; it never yields a record appended later, however its next() calls
\* interleave with later appends.
C8_IteratorSnapshot ==
    (iter # None /\ iter_ok) =>
        /\ iter_from + Len(yielded) <= iter_count
        /\ yielded = SubSeq(written, iter_from + 1, iter_from + Len(yielded))
        /\ iter_done => iter_from + Len(yielded) = iter_count

\* an iterator from seqno 1 of two records that has ended after a third
\* record was appended
C8_Witness ==
    /\ iter # None /\ iter_ok /\ iter_done
    /\ iter_from = 1 /\ iter_count = 2
    /\ Len(written) = 3
    /\ Len(yielded) = 1


\* C11 (as claimed) Length monotonicity: every append that returned an error,
\* the seqno index's error included, leaves flatfile.len() as it was when the
\* call began.
C11_FailedAppendKeepsLen ==
    \A t \in {1} :
        (pc[t] = "done" /\ result[t].tag \in {"RecordExists", "OutOfSpace"}) =>
            FlatFileLen(flatfile) = FlatFileLen(pre[t].flatfile)

\* C11 (amended) flatfile.len() never decreases from one state to the next
\* (appends and reopen alike); a call whose batch holds a stored key, or that
\* returned RecordExists or the flatfile's error, leaves it as it was when the
\* call began; a call that returned the seqno index's error has advanced it
\* by the bytes of its batch.
C11_LengthMonotone ==
    /\ [][FlatFileLen(flatfile') >= FlatFileLen(flatfile)]_vars
    /\ [](\A t \in {1} :
            /\ ( /\ pc[t] = "done"
                 /\ \/ result[t].tag = "RecordExists"
                    \/ result[t] = ErrOutOfSpace("flatfile")
                    \/ FirstExisting(pre[t].mapping, records[t], 1) # None )
               => FlatFileLen(flatfile) = FlatFileLen(pre[t].flatfile)
            /\ (pc[t] = "done" /\ result[t] = ErrOutOfSpace("seqno")) =>
                   FlatFileLen(flatfile) = FlatFileLen(pre[t].flatfile)
                                               + TotalSize(records[t]))

\* a call that returned the seqno index's error after writing its one record
\* behind two stored ones
C11_Witness ==
    /\ pc[1] = "done" /\ result[1] = ErrOutOfSpace("seqno")
    /\ Len(records[1]) = 1
    /\ SeqNoIndexLen(seqno_index) = 2
    /\ FlatFileLen(flatfile) > FlatFileLen(pre[1].flatfile)


\* the database after one complete call append(&[r]) begun on the database s:
\* unchanged when the key is stored or the flatfile has no room, without the
\* seqno entry when the seqno index has no room
SingleAppend(s, r) ==
    LET size == FlatFileLen(s.flatfile)
        at == InitialOffset(size)
        update == PushOffset(<<>>, at, r)
    IN  IF IndexContains(s.mapping, CheckedKey(<<r>>, 1)) THEN s
        ELSE IF ~FlatFileAppendOk(s.flatfile, <<r>>) THEN s
        ELSE [flatfile |-> FlatFileAppend(s.flatfile, <<r>>),
              seqno_index |->
                  IF SeqNoIndexAppendOk(s.seqno_index, update)
                  THEN SeqNoIndexAppend(s.seqno_index, update)
                  ELSE s.seqno_index,
              mapping |-> IndexPut(s.mapping, r.key, at)]

\* the database after one call append(&[r]) for each record of recs, in order
RECURSIVE SingleAppends(_, _)
SingleAppends(s, recs) ==
    IF recs = <<>> THEN s
    ELSE SingleAppends(SingleAppend(s, Head(recs)), Tail(recs))

\* C12 Batch/single equivalence: after a call that appended a
\* batch of pairwise distinct keys and returned Ok, the flatfile (bytes and
\* length), the index and the seqno index are what one single-record append
\* per record, in the same order, makes of the database the call began on.
C12_BatchSingleEquivalence ==
    \A t \in {1} :
        (pc[t] = "done" /\ result[t] = Ok /\ DistinctKeys(records[t])) =>
            Snapshot = SingleAppends(pre[t], records[t])

\* a batch of two records with different keys, the shorter one first
C12_Witness ==
    /\ pc[1] = "done" /\ result[1] = Ok
    /\ Len(records[1]) = 2
    /\ records[1][1].key # records[1][2].key
    /\ Len(records[1][1].value) < Len(records[1][2].value)
    /\ Snapshot # pre[1]


\* C13 Absent lookups return None: on an open database get of a key that no
\* record of the flatfile has returns None, get_by_seqno(i) returns None for
\* every i from the number of stored records on, and iter_from_seqno(i)
\* returns None exactly for the i from the number of seqno entries on (the
\* empty database with i = 0 included).
C13_AbsentLookups ==
    opened =>
        /\ \A k \in KeySet :
               k \notin KeysOf(written) => Get(mapping, flatfile, k) = None
        /\ \A i \in SeqnoRange :
               i >= Len(written) => GetBySeqno(seqno_index, flatfile, i) = None
        /\ \A i \in SeqnoRange :
               IterFromSeqno(seqno_index, flatfile, i) = None
                   <=> i >= SeqNoIndexLen(seqno_index)

\* one record stored: a key without a record, and iter_from_seqno a value at
\* seqno 0 and None at seqno 1
C13_Witness ==
    /\ opened /\ Quiescent
    /\ Len(written) = 1 /\ SeqNoIndexLen(seqno_index) = 1
    /\ \E k \in KeySet : k \notin KeysOf(written)
    /\ IterFromSeqno(seqno_index, flatfile, 0) # None
    /\ IterFromSeqno(seqno_index, flatfile, 1) = None
    /\ GetBySeqno(seqno_index, flatfile, 1) = None


\* the flatfile offset at which the j-th record of the flatfile begins
WrittenOffset(j) == TotalSize(SubSeq(written, 1, j - 1))

\* no call is in flight, and the batches of the two callers have pairwise
\* distinct keys and share no key
DistinctCallsSettled ==
    /\ Settled
    /\ DistinctKeys(records[1]) /\ DistinctKeys(records[2])
    /\ KeysOf(records[1]) \cap KeysOf(records[2]) = {}

\* C14 KeyIndex points at record starts: in every quiescent state reached by
\* any interleaving of append calls whose batches have pairwise distinct
\* keys, the index maps the key of every record stored in the flatfile to
\* the offset at which that record begins.
C14_KeyIndexRecordStarts ==
    DistinctCallsSettled =>
        \A j \in 1..Len(written) :
            /\ written[j].key \in DOMAIN mapping
            /\ mapping[written[j].key] = WrittenOffset(j)


\* C15 Seqno index shape: in every quiescent state reached by any
\* interleaving of append calls of which none returned an error, the seqno
\* index holds as many entries as the flatfile holds records, entry i is the
\* flatfile offset of the i-th record in flatfile order, and the entries are
\* strictly increasing.
C15_SeqnoIndexShape ==
    (Settled /\ \A t \in Threads : result[t].tag \in {"Ok", "Pending"}) =>
        /\ seqno_index.actual_size = EntrySize * Len(written)
        /\ \A i \in 0..(Len(written) - 1) :
               SeqNoIndexGetPointerToValue(seqno_index, i)
                   = Some(WrittenOffset(i + 1))
        /\ \A i, j \in 0..(SeqNoIndexLen(seqno_index) - 1) :
               i < j => SeqNoIndexGetPointerToValue(seqno_index, i)[1]
                            < SeqNoIndexGetPointerToValue(seqno_index, j)[1]


\* C16 Offset consistency between the two indexes: in every quiescent state
\* reached by non-overlapping appends of which none failed at the seqno
\* index, every key of the index has a record among the inserted ones, and
\* the offset the index holds for it is the entry of the seqno index at the
\* insertion order of that record (the last inserted record with the key).
C16_OffsetConsistency ==
    (Settled /\ ~seqno_failed) =>
        \A k \in DOMAIN mapping :
            \E i \in 1..Len(Inserted) :
                /\ Inserted[i].key = k
                /\ \A h \in (i + 1)..Len(Inserted) : Inserted[h].key # k
                /\ SeqNoIndexGetPointerToValue(seqno_index, i - 1)
                       = Some(mapping[k])

\* two keys inserted by two appends, the second record behind a five-byte
\* first one
C16_Witness ==
    /\ Settled /\ ~seqno_failed
    /\ Len(inserted) = 2
    /\ Cardinality(DOMAIN mapping) = 2
    /\ \E k \in DOMAIN mapping : mapping[k] = 5
    /\ SeqNoIndexGetPointerToValue(seqno_index, 1) = Some(5)


\* the call of thread t has ended; its keys were all fresh and its bytes fit
\* the flatfile map, but the seqno map had no room for its entries
SeqnoFailureDone(t) ==
    /\ pc[t] = "done"
    /\ FirstExisting(pre[t].mapping, records[t], 1) = None
    /\ FlatFileAppendOk(pre[t].flatfile, records[t])
    /\ pre[t].seqno_index.actual_size + EntrySize * Len(records[t])
           > seqno_index_map_size

\* C17 Divergence on seqno failure: a call whose flatfile append succeeds
\* and whose seqno append fails returns the seqno index's error; the
\* flatfile then holds all records of the batch, get of the key of each
\* returns it (the last record of the batch with that key), and the seqno
\* index is as it was, none of its entries pointing at a record of the
\* batch.  After a drop and reopen that follows such a call, get still
\* resolves the key of every record of the flatfile, and the seqno index is
\* the one found at the drop, with fewer entries than the flatfile has
\* records.
C17_SeqnoFailureDivergence ==
    /\ \A t \in {1} :
           SeqnoFailureDone(t) =>
               /\ result[t] = ErrOutOfSpace("seqno")
               /\ flatfile = FlatFileAppend(pre[t].flatfile, records[t])
               /\ \A j \in 1..Len(records[t]) :
                      Get(mapping, flatfile, records[t][j].key)
                          = Some(LastWithKey(records[t], j))
               /\ seqno_index = pre[t].seqno_index
               /\ \A i \in 0..(SeqNoIndexLen(seqno_index) - 1) :
                      SeqNoIndexGetPointerToValue(seqno_index, i)[1]
                          < FlatFileLen(pre[t].flatfile)
    /\ (last = "reopen" /\ seqno_failed) =>
           /\ \A j \in 1..Len(written) :
                  Get(mapping, flatfile, written[j].key)
                      = Some(LastWithKey(written, j))
           /\ seqno_index = closed.seqno_index
           /\ SeqNoIndexLen(seqno_index) < Len(written)

\* a reopen after a call that wrote a third record and failed at the full
\* seqno index: get returns the third record, get_by_seqno(2) nothing
C17_Witness ==
    /\ last = "reopen" /\ seqno_failed
    /\ SeqNoIndexLen(seqno_index) = 2
    /\ Len(written) = 3
    /\ Get(mapping, flatfile, written[3].key) = Some(written[3])
    /\ GetBySeqno(seqno_index, flatfile, 2) = None


\* C18 Readers never see a dangling or partial record: in every state of one
\* caller's appends, between any two of their steps, every offset held by
\* the index or by the seqno index is below flatfile.len() and is the start
\* of a record of the flatfile; get of a key returns None or that complete
\* record, which has the key; get_by_seqno(i) returns None or a complete
\* record of the flatfile, the i-th one as long as no seqno append failed.
C18_NoDanglingOffsets ==
    /\ \A k \in KeySet :
           \/ /\ k \notin DOMAIN mapping
              /\ Get(mapping, flatfile, k) = None
           \/ /\ k \in DOMAIN mapping
              /\ mapping[k] < FlatFileLen(flatfile)
              /\ \E j \in 1..Len(written) :
                     /\ WrittenOffset(j) = mapping[k]
                     /\ written[j].key = k
                     /\ Get(mapping, flatfile, k) = Some(written[j])
    /\ \A i \in SeqnoRange :
           LET p == SeqNoIndexGetPointerToValue(seqno_index, i)
           IN  \/ /\ p = None
                  /\ GetBySeqno(seqno_index, flatfile, i) = None
               \/ /\ p # None
                  /\ p[1] < FlatFileLen(flatfile)
                  /\ \E j \in 1..Len(written) :
                         /\ WrittenOffset(j) = p[1]
                         /\ GetBySeqno(seqno_index, flatfile, i)
                                = Some(written[j])
                         /\ ~seqno_failed => j = i + 1

\* an append of two records in flight behind a stored one: the flatfile
\* holds both, the index only the first, the seqno index neither
C18_Witness ==
    /\ pc[1] = "put" /\ idx[1] = 2
    /\ Len(written) = 3
    /\ Get(mapping, flatfile, records[1][1].key) = Some(records[1][1])
    /\ SeqNoIndexLen(seqno_index) = 1
    /\ GetBySeqno(seqno_index, flatfile, 1) = None
    /\ FlatFileGetRecordAtOffset(flatfile, offset[1]) = Some(records[1][2])


\* the call of thread t has ended; its batch holds some key twice, none of
\* its keys was stored before, and both maps had room for it
DuplicateBatchDone(t) ==
    /\ pc[t] = "done"
    /\ ~DistinctKeys(records[t])
    /\ FirstExisting(pre[t].mapping, records[t], 1) = None
    /\ FlatFileAppendOk(pre[t].flatfile, records[t])
    /\ pre[t].seqno_index.actual_size + EntrySize * Len(records[t])
           <= seqno_index_map_size

\* C19 In-batch duplicate keys: an append whose batch holds a key twice (no
\* key of it stored before, room in both maps) returns Ok; all its records
\* are written to the flatfile; the seqno index gains one entry per record,
\* all different, each pointing at its record; the index maps every key to
\* the offset of the last record of the batch with that key, which get
\* returns; and Index::new on the reopened flatfile builds the same mapping.
C19_InBatchDuplicates ==
    \A t \in {1} :
        DuplicateBatchDone(t) =>
            LET n == SeqNoIndexLen(pre[t].seqno_index)
            IN  /\ result[t] = Ok
                /\ flatfile = FlatFileAppend(pre[t].flatfile, records[t])
                /\ SeqNoIndexLen(seqno_index) = n + Len(records[t])
                /\ \A i, j \in 1..Len(records[t]) :
                       i # j =>
                           SeqNoIndexGetPointerToValue(seqno_index, n + i - 1)
                             # SeqNoIndexGetPointerToValue(seqno_index,
                                                           n + j - 1)
                /\ \A j \in 1..Len(records[t]) :
                       /\ FlatFileGetRecordAtOffset(flatfile,
                              SeqNoIndexGetPointerToValue(seqno_index,
                                                          n + j - 1)[1])
                              = Some(records[t][j])
                       /\ Get(mapping, flatfile, records[t][j].key)
                              = Some(LastWithKey(records[t], j))
                /\ IndexNew(FlatFileNew(flatfile)) = mapping

\* a batch with one key twice, the longer value first
C19_Witness ==
    /\ DuplicateBatchDone(1)
    /\ Len(records[1]) = 2
    /\ Len(records[1][1].value) > Len(records[1][2].value)
    /\ mapping[records[1][1].key] = SerializerSize(records[1][1])
    /\ Get(mapping, flatfile, records[1][1].key) = Some(records[1][2])


\* C20 Key uniqueness under concurrent appends: when two threads append
\* batches, each of pairwise distinct keys, that share a key, under every
\* interleaving the flatfile never holds two records with a shared key, and
\* once both calls have ended at most one of them returned Ok, the other one
\* RecordExists.
C20_ConcurrentKeyUniqueness ==
    ( /\ DistinctKeys(records[1]) /\ DistinctKeys(records[2])
      /\ KeysOf(records[1]) \cap KeysOf(records[2]) # {} ) =>
        /\ \A k \in KeysOf(records[1]) \cap KeysOf(records[2]) :
               \A i, j \in 1..Len(written) :
                   (written[i].key = k /\ written[j].key = k) => i = j
        /\ (pc[1] = "done" /\ pc[2] = "done") =>
               /\ ~(result[1] = Ok /\ result[2] = Ok)
               /\ result[1] = Ok => result[2].tag = "RecordExists"
               /\ result[2] = Ok => result[1].tag = "RecordExists"

=============================================================================
